---- MODULE Spec2Model ----
EXTENDS FiniteSets, Integers, Sequences, TLC

\* ---------------------------------------------------------------------
\* Bounds of the model
\* ---------------------------------------------------------------------
MaxNames == 2

\* Dataset names that a listing or the batch loop can carry.
Names == {"A", "B"}

\* Two run slots: the batch loop and the module-level run use slot 1,
\* the two-process specification uses both.
Slots == {1, 2}

\* ---------------------------------------------------------------------
\* State
\* ---------------------------------------------------------------------
VARIABLES
    pc,          \* per slot: position inside process_raster_and_csv_from_s3
    temp_dir,    \* per slot: id of the directory made by tempfile.mkdtemp
    zip_name,    \* per slot: dataset name derived from the zip key
    archive,     \* per slot: what the downloaded zip holds
    raster_path, \* per slot: local variable raster_path
    crs,         \* per slot: value returned by check_georeferencing
    exc,         \* per slot: stage whose exception is propagating, or "none"
    result,      \* per slot: how the call ended ("none", "ok", "raised")
    trace,       \* per slot: stages entered so far, in order
    reprojected, \* per slot: reproject_raster wrote its output
    stats_done,  \* per slot: compute_zonal_statistics returned a result
    dirs,        \* directories that exist on the local disk
    files,       \* files that exist on the local disk
    writes,      \* history: every file write, with the run that made it
    reads,       \* history: every raster read, with the run whose data it saw
    uploads,     \* sequence of objects published by upload_to_s3
    uuid,        \* source of fresh directory names
    lpc,         \* batch loop: "loop", "done" or "crashed"
    file_names,  \* batch loop: the list iterated over
    idx,         \* batch loop: position in file_names
    attempted,   \* batch loop: names passed to process_raster_and_csv_from_s3
    outcomes,    \* batch loop: how each attempt ended
    dpc,         \* app_file module execution: statement reached
    listed,      \* get_data: the module variable file_names_without_extension
    stats,       \* merge_stats_with_csv: the zonal statistics passed in
    csv_data,    \* merge_stats_with_csv: the table read from csv_path
    data,        \* merge_stats_with_csv: the rows built before the join
    merged_df,   \* merge_stats_with_csv: the rows returned
    mpc,         \* merge_stats_with_csv: "call", "returned" or "KeyError"
    polygon,     \* polygon_to_h3: the Polygon or MultiPolygon passed in
    polyfill_args, \* polygon_to_h3: the coordinate lists given to h3.polyfill
    part_results,  \* polygon_to_h3: what h3.polyfill returned for each part
    h3_indices,  \* polygon_to_h3: the list returned
    hpc          \* polygon_to_h3: "call" or "returned"

runVars == <<pc, temp_dir, zip_name, archive, raster_path, crs, exc, result,
             trace, reprojected, stats_done>>
diskVars == <<dirs, files, writes, reads, uploads, uuid>>
loopVars == <<lpc, file_names, idx, attempted, outcomes>>
driverVars == <<dpc, listed>>
mergeVars == <<stats, csv_data, data, merged_df, mpc>>
h3Vars == <<polygon, polyfill_args, part_results, h3_indices, hpc>>
pureVars == <<mergeVars, h3Vars>>
vars == <<runVars, diskVars, loopVars, driverVars, pureVars>>

\* ---------------------------------------------------------------------
\* Values
\* ---------------------------------------------------------------------
default_crs == "EPSG:4326"

\* The fixed directory of reproject_raster's default output path.
TmpRoot == 0

NoPath == [dir |-> -1, name |-> ""]
NoMeta == [crs |-> "n/a", transform |-> "n/a"]
NoRaster == [crs |-> "absent", transform |-> "absent"]

\* Georeferencing of a raster file: src.crs and src.transform.
Rasters == [crs : {"None", "EPSG:4326", "EPSG:5070"}, transform : {"identity", "geo"}]

\* Content of a dataset zip: possibly a raster, possibly a lookup CSV.
Archives == [raster : Rasters \cup {NoRaster}, csv : BOOLEAN]
NoArchive == [raster |-> NoRaster, csv |-> FALSE]

StageOrder == <<"download", "boundary", "tessellation", "discovery", "raster",
                "zonal", "merge", "save", "upload">>

Ext(name) ==
    CASE name = "archive.zip" -> ".zip"
      [] name = "raster.tif" -> ".tif"
      [] name = "reprojected.tif" -> ".tif"
      [] name = "lookup.csv" -> ".csv"
      [] name = "output.csv" -> ".csv"
      [] OTHER -> ""

IsPrefix(s, t) == Len(s) <= Len(t) /\ SubSeq(t, 1, Len(s)) = s

FileAt(path) == {f \in files : f.dir = path.dir /\ f.name = path.name}

\* Writing a file replaces whatever was at that path.
WriteFile(fs, d, n, by, meta) ==
    {f \in fs : ~(f.dir = d /\ f.name = n)}
        \cup {[dir |-> d, name |-> n, by |-> by, meta |-> meta]}

WriteRec(by, d, n, kind) == [by |-> by, dir |-> d, name |-> n, kind |-> kind]

\* ---------------------------------------------------------------------
\* process_raster_and_csv_from_s3, one action per stage
\* ---------------------------------------------------------------------
RunLocalsInit ==
    /\ pc = [r \in Slots |-> "idle"]
    /\ temp_dir = [r \in Slots |-> -1]
    /\ zip_name = [r \in Slots |-> ""]
    /\ archive = [r \in Slots |-> NoArchive]
    /\ raster_path = [r \in Slots |-> NoPath]
    /\ crs = [r \in Slots |-> "unset"]
    /\ exc = [r \in Slots |-> "none"]
    /\ result = [r \in Slots |-> "none"]
    /\ trace = [r \in Slots |-> <<>>]
    /\ reprojected = [r \in Slots |-> FALSE]
    /\ stats_done = [r \in Slots |-> FALSE]

DiskInit ==
    /\ dirs = {TmpRoot}
    /\ files = {}
    /\ writes = {}
    /\ reads = {}
    /\ uploads = <<>>
    /\ uuid = 0

\* Entry of the function: tempfile.mkdtemp with a uuid4 prefix makes a
\* directory no other run has.
EnterRun(r, name) ==
    /\ pc[r] = "idle"
    /\ uuid' = uuid + 1
    /\ dirs' = dirs \cup {uuid + 1}
    /\ temp_dir' = [temp_dir EXCEPT ![r] = uuid + 1]
    /\ zip_name' = [zip_name EXCEPT ![r] = name]
    /\ archive' = [archive EXCEPT ![r] = NoArchive]
    /\ raster_path' = [raster_path EXCEPT ![r] = NoPath]
    /\ crs' = [crs EXCEPT ![r] = "unset"]
    /\ exc' = [exc EXCEPT ![r] = "none"]
    /\ result' = [result EXCEPT ![r] = "none"]
    /\ trace' = [trace EXCEPT ![r] = <<>>]
    /\ reprojected' = [reprojected EXCEPT ![r] = FALSE]
    /\ stats_done' = [stats_done EXCEPT ![r] = FALSE]
    /\ pc' = [pc EXCEPT ![r] = "download"]
    /\ UNCHANGED <<files, writes, reads, uploads>>

\* A mutant of Raise: the stage's handler logs the error and does not
\* re-raise, so the function goes on with the next stage.
Raise_Swallowed(r, stage, next) ==
    /\ pc' = [pc EXCEPT ![r] = next]
    /\ exc' = [exc EXCEPT ![r] = stage]

\* A stage raises: its handler logs and re-raises, the outer handler logs
\* and re-raises, and control reaches the finally block.
Raise(r, stage, next) ==
    /\ pc' = [pc EXCEPT ![r] = "finally"]
    /\ exc' = [exc EXCEPT ![r] = stage]

Proceed(r, next) ==
    /\ pc' = [pc EXCEPT ![r] = next]
    /\ exc' = exc

Enter(r, stage) == trace' = [trace EXCEPT ![r] = Append(@, stage)]

\* Step 1: download_and_extract_from_s3 into temp_dir.
Download(r) ==
    /\ pc[r] = "download"
    /\ Enter(r, "download")
    /\ \/ \* s3.download_file raises
          /\ Raise(r, "download", "shapefile")
          /\ UNCHANGED <<files, writes, archive>>
       \/ \* the zip is written, ZipFile or extractall raises
          /\ Raise(r, "download", "shapefile")
          /\ files' = WriteFile(files, temp_dir[r], "archive.zip", temp_dir[r], NoMeta)
          /\ writes' = writes \cup {WriteRec(temp_dir[r], temp_dir[r], "archive.zip", "archive")}
          /\ UNCHANGED archive
       \/ \* the zip is written and extracted
          \E a \in Archives :
             LET d == temp_dir[r]
                 f1 == WriteFile(files, d, "archive.zip", d, NoMeta)
                 f2 == IF a.raster = NoRaster THEN f1
                       ELSE WriteFile(f1, d, "raster.tif", d, a.raster)
                 f3 == IF a.csv THEN WriteFile(f2, d, "lookup.csv", d, NoMeta) ELSE f2
                 w1 == {WriteRec(d, d, "archive.zip", "archive")}
                 w2 == IF a.raster = NoRaster THEN {}
                       ELSE {WriteRec(d, d, "raster.tif", "extracted")}
                 w3 == IF a.csv THEN {WriteRec(d, d, "lookup.csv", "extracted")} ELSE {}
             IN /\ Proceed(r, "shapefile")
                /\ archive' = [archive EXCEPT ![r] = a]
                /\ files' = f3
                /\ writes' = writes \cup w1 \cup w2 \cup w3
    /\ UNCHANGED <<temp_dir, zip_name, raster_path, crs, result, reprojected,
                   stats_done, dirs, reads, uploads, uuid>>

\* Step 2: process_shapefile. The four shapefile parts go to a
\* TemporaryDirectory of its own, which the with-block removes on exit,
\* whether the body returned or raised.
Shapefile(r) ==
    /\ pc[r] = "shapefile"
    /\ Enter(r, "boundary")
    /\ uuid' = uuid + 1
    /\ \/ Raise(r, "boundary", "tessellate") /\ UNCHANGED writes
       \/ /\ Raise(r, "boundary", "tessellate")
          /\ writes' = writes \cup {WriteRec(temp_dir[r], uuid + 1, "boundary.shp", "shapefile")}
       \/ /\ Proceed(r, "tessellate")
          /\ writes' = writes \cup {WriteRec(temp_dir[r], uuid + 1, "boundary.shp", "shapefile")}
    /\ UNCHANGED <<temp_dir, zip_name, archive, raster_path, crs, result,
                   reprojected, stats_done, dirs, files, reads, uploads>>

\* Step 3: polygon_to_h3 and the cell geometries.
Tessellate(r) ==
    /\ pc[r] = "tessellate"
    /\ Enter(r, "tessellation")
    /\ \/ Raise(r, "tessellation", "find")
       \/ Proceed(r, "find")
    /\ UNCHANGED <<temp_dir, zip_name, archive, raster_path, crs, result,
                   reprojected, stats_done, diskVars>>

\* find_file_by_extension: the files below root_dir whose name ends in
\* the extension.
find_file_by_extension(root_dir, extension) ==
    {[dir |-> f.dir, name |-> f.name] : f \in {g \in files : g.dir = root_dir /\ Ext(g.name) = extension}}

\* Step 4: the raster and the CSV are looked up in the extracted folder;
\* FileNotFoundError when either is missing.
Find(r) ==
    /\ pc[r] = "find"
    /\ Enter(r, "discovery")
    /\ LET tifs == find_file_by_extension(temp_dir[r], ".tif")
           csvs == find_file_by_extension(temp_dir[r], ".csv")
       IN IF tifs = {} \/ csvs = {}
          THEN Raise(r, "discovery", "georef") /\ UNCHANGED raster_path
          ELSE /\ Proceed(r, "georef")
               /\ \E p \in tifs : raster_path' = [raster_path EXCEPT ![r] = p]
    /\ UNCHANGED <<temp_dir, zip_name, archive, crs, result, reprojected,
                   stats_done, diskVars>>

\* check_georeferencing: None when the CRS is missing or the transform is
\* the identity, the CRS otherwise. It never raises on such a raster.
check_georeferencing(meta) ==
    IF meta.crs = "None" \/ meta.transform = "identity" THEN "None" ELSE meta.crs

\* Step 5: check_georeferencing, then reproject_raster unless the value
\* returned equals 'EPSG:4326'. reproject_raster is called without
\* output_path and so writes /tmp/reprojected.tif; it cannot build a
\* transform from a missing source CRS and raises then.
Georef(r) ==
    /\ pc[r] = "georef"
    /\ Enter(r, "raster")
    /\ \/ \* rasterio.open raises
          /\ Raise(r, "raster", "zonal")
          /\ UNCHANGED <<crs, raster_path, reprojected, files, writes, reads>>
       \/ \E f \in FileAt(raster_path[r]) :
             LET c == check_georeferencing(f.meta)
             IN /\ crs' = [crs EXCEPT ![r] = c]
                /\ reads' = reads \cup {[reader |-> temp_dir[r], writer |-> f.by, stage |-> "raster"]}
                /\ IF c # default_crs
                   THEN \/ \* reproject_raster raises before it opens its output
                           /\ Raise(r, "raster", "zonal")
                           /\ UNCHANGED <<raster_path, reprojected, files, writes>>
                        \/ \* reproject_raster raises with its output half written
                           /\ f.meta.crs # "None"
                           /\ Raise(r, "raster", "zonal")
                           /\ files' = WriteFile(files, TmpRoot, "reprojected.tif", temp_dir[r],
                                                 [crs |-> default_crs, transform |-> "geo"])
                           /\ writes' = writes \cup {WriteRec(temp_dir[r], TmpRoot, "reprojected.tif", "reprojected")}
                           /\ UNCHANGED <<raster_path, reprojected>>
                        \/ \* reproject_raster writes its output
                           /\ f.meta.crs # "None"
                           /\ Proceed(r, "zonal")
                           /\ files' = WriteFile(files, TmpRoot, "reprojected.tif", temp_dir[r],
                                                 [crs |-> default_crs, transform |-> "geo"])
                           /\ writes' = writes \cup {WriteRec(temp_dir[r], TmpRoot, "reprojected.tif", "reprojected")}
                           /\ raster_path' = [raster_path EXCEPT ![r] = [dir |-> TmpRoot, name |-> "reprojected.tif"]]
                           /\ reprojected' = [reprojected EXCEPT ![r] = TRUE]
                   ELSE /\ Proceed(r, "zonal")
                        /\ UNCHANGED <<raster_path, reprojected, files, writes>>
    /\ UNCHANGED <<temp_dir, zip_name, archive, result, stats_done, dirs, uploads, uuid>>

\* Step 6: compute_zonal_statistics opens whatever file is at raster_path.
Zonal(r) ==
    /\ pc[r] = "zonal"
    /\ Enter(r, "zonal")
    /\ \/ /\ Raise(r, "zonal", "merge")
          /\ UNCHANGED <<stats_done, reads>>
       \/ \E f \in FileAt(raster_path[r]) :
             /\ Proceed(r, "merge")
             /\ stats_done' = [stats_done EXCEPT ![r] = TRUE]
             /\ reads' = reads \cup {[reader |-> temp_dir[r], writer |-> f.by, stage |-> "zonal"]}
    /\ UNCHANGED <<temp_dir, zip_name, archive, raster_path, crs, result,
                   reprojected, dirs, files, writes, uploads, uuid>>

\* Step 7: merge_stats_with_csv.
Merge(r) ==
    /\ pc[r] = "merge"
    /\ Enter(r, "merge")
    /\ \/ Raise(r, "merge", "save")
       \/ Proceed(r, "save")
    /\ UNCHANGED <<temp_dir, zip_name, archive, raster_path, crs, result,
                   reprojected, stats_done, diskVars>>

\* Step 8: the merged table is written to temp_dir/<zip_name>.csv.
Save(r) ==
    /\ pc[r] = "save"
    /\ Enter(r, "save")
    /\ \/ Raise(r, "save", "upload") /\ UNCHANGED <<files, writes>>
       \/ /\ Proceed(r, "upload")
          /\ files' = WriteFile(files, temp_dir[r], "output.csv", temp_dir[r], NoMeta)
          /\ writes' = writes \cup {WriteRec(temp_dir[r], temp_dir[r], "output.csv", "output")}
    /\ UNCHANGED <<temp_dir, zip_name, archive, raster_path, crs, result,
                   reprojected, stats_done, dirs, reads, uploads, uuid>>

\* Step 9: upload_to_s3, then return output_file.
Upload(r) ==
    /\ pc[r] = "upload"
    /\ Enter(r, "upload")
    /\ \/ Raise(r, "upload", "finally") /\ UNCHANGED uploads
       \/ /\ Proceed(r, "finally")
          /\ uploads' = Append(uploads, [by |-> temp_dir[r], key |-> zip_name[r]])
    /\ UNCHANGED <<temp_dir, zip_name, archive, raster_path, crs, result,
                   reprojected, stats_done, dirs, files, writes, reads, uuid>>

\* A mutant of Finally: the directory is removed on the success path only.
Finally_SuccessOnly(r) ==
    /\ pc[r] = "finally"
    /\ dirs' = IF exc[r] = "none" THEN dirs \ {temp_dir[r]} ELSE dirs
    /\ files' = IF exc[r] = "none" THEN {f \in files : f.dir # temp_dir[r]} ELSE files
    /\ result' = [result EXCEPT ![r] = IF exc[r] = "none" THEN "ok" ELSE "raised"]
    /\ pc' = [pc EXCEPT ![r] = "returned"]
    /\ UNCHANGED <<temp_dir, zip_name, archive, raster_path, crs, exc, trace,
                   reprojected, stats_done, writes, reads, uploads, uuid>>

\* The finally block: shutil.rmtree(temp_dir), then the function returns
\* output_file or lets the exception go on to the caller.
Finally(r) ==
    /\ pc[r] = "finally"
    /\ dirs' = dirs \ {temp_dir[r]}
    /\ files' = {f \in files : f.dir # temp_dir[r]}
    /\ result' = [result EXCEPT ![r] = IF exc[r] = "none" THEN "ok" ELSE "raised"]
    /\ pc' = [pc EXCEPT ![r] = "returned"]
    /\ UNCHANGED <<temp_dir, zip_name, archive, raster_path, crs, exc, trace,
                   reprojected, stats_done, writes, reads, uploads, uuid>>

\* The state of the function-level specifications while a run, the loop
\* or the module execution is being explored.
PureIdle ==
    /\ stats = <<>>
    /\ csv_data = <<>>
    /\ data = <<>>
    /\ merged_df = <<>>
    /\ mpc = "n/a"

H3Idle ==
    /\ polygon = [multi |-> FALSE, geoms |-> <<>>]
    /\ polyfill_args = <<>>
    /\ part_results = <<>>
    /\ h3_indices = <<>>
    /\ hpc = "n/a"

\* ---------------------------------------------------------------------
\* The batch loop of app_file: for x in file_names, try/except Exception
\* ---------------------------------------------------------------------
SeqsUpTo(S, n) == UNION {[1..k -> S] : k \in 0..n}

Init ==
    /\ RunLocalsInit
    /\ DiskInit
    /\ lpc = "loop"
    /\ file_names \in SeqsUpTo(Names, MaxNames)
    /\ idx = 1
    /\ attempted = <<>>
    /\ outcomes = <<>>
    /\ dpc = "n/a"
    /\ listed = <<>>
    /\ PureIdle
    /\ H3Idle

LoopCall ==
    /\ lpc = "loop"
    /\ idx <= Len(file_names)
    /\ EnterRun(1, file_names[idx])
    /\ attempted' = Append(attempted, file_names[idx])
    /\ UNCHANGED <<lpc, file_names, idx, outcomes, driverVars>>

\* A mutant of LoopHandle: the loop body has no try/except, an exception
\* of the call ends the loop.
LoopHandle_NoCatch ==
    /\ lpc = "loop"
    /\ pc[1] = "returned"
    /\ outcomes' = Append(outcomes, result[1])
    /\ pc' = [pc EXCEPT ![1] = "idle"]
    /\ IF result[1] = "raised"
       THEN lpc' = "crashed" /\ idx' = idx
       ELSE lpc' = lpc /\ idx' = idx + 1
    /\ UNCHANGED <<temp_dir, zip_name, archive, raster_path, crs, exc, result,
                   trace, reprojected, stats_done, diskVars, file_names, attempted, driverVars>>

\* The call returned or raised; either way the body logs one line and the
\* loop goes on with the next name.
LoopHandle ==
    /\ lpc = "loop"
    /\ pc[1] = "returned"
    /\ outcomes' = Append(outcomes, result[1])
    /\ pc' = [pc EXCEPT ![1] = "idle"]
    /\ lpc' = lpc
    /\ idx' = idx + 1
    /\ UNCHANGED <<temp_dir, zip_name, archive, raster_path, crs, exc, result,
                   trace, reprojected, stats_done, diskVars, file_names, attempted, driverVars>>

LoopExit ==
    /\ lpc = "loop"
    /\ pc[1] = "idle"
    /\ idx > Len(file_names)
    /\ lpc' = "done"
    /\ UNCHANGED <<runVars, diskVars, file_names, idx, attempted, outcomes, driverVars>>

Next ==
    \/ LoopCall /\ UNCHANGED pureVars
    \/ LoopHandle /\ UNCHANGED pureVars
    \/ LoopExit /\ UNCHANGED pureVars
    \/ Download(1) /\ UNCHANGED <<loopVars, driverVars, pureVars>>
    \/ Shapefile(1) /\ UNCHANGED <<loopVars, driverVars, pureVars>>
    \/ Tessellate(1) /\ UNCHANGED <<loopVars, driverVars, pureVars>>
    \/ Find(1) /\ UNCHANGED <<loopVars, driverVars, pureVars>>
    \/ Georef(1) /\ UNCHANGED <<loopVars, driverVars, pureVars>>
    \/ Zonal(1) /\ UNCHANGED <<loopVars, driverVars, pureVars>>
    \/ Merge(1) /\ UNCHANGED <<loopVars, driverVars, pureVars>>
    \/ Save(1) /\ UNCHANGED <<loopVars, driverVars, pureVars>>
    \/ Upload(1) /\ UNCHANGED <<loopVars, driverVars, pureVars>>
    \/ Finally(1) /\ UNCHANGED <<loopVars, driverVars, pureVars>>

Spec == Init /\ [][Next]_vars

\* ---------------------------------------------------------------------
\* Two runs in separate processes, interleaved stage by stage
\* ---------------------------------------------------------------------
ProcName(r) == IF r = 1 THEN "A" ELSE "B"

ConcInit ==
    /\ RunLocalsInit
    /\ DiskInit
    /\ lpc = "n/a"
    /\ file_names = <<>>
    /\ idx = 1
    /\ attempted = <<>>
    /\ outcomes = <<>>
    /\ dpc = "n/a"
    /\ listed = <<>>
    /\ PureIdle
    /\ H3Idle

ProcStart(r) ==
    /\ result[r] = "none"
    /\ EnterRun(r, ProcName(r))
    /\ UNCHANGED <<loopVars, driverVars, pureVars>>

ConcNext ==
    \E r \in Slots :
        \/ ProcStart(r)
        \/ Download(r) /\ UNCHANGED <<loopVars, driverVars, pureVars>>
        \/ Shapefile(r) /\ UNCHANGED <<loopVars, driverVars, pureVars>>
        \/ Tessellate(r) /\ UNCHANGED <<loopVars, driverVars, pureVars>>
        \/ Find(r) /\ UNCHANGED <<loopVars, driverVars, pureVars>>
        \/ Georef(r) /\ UNCHANGED <<loopVars, driverVars, pureVars>>
        \/ Zonal(r) /\ UNCHANGED <<loopVars, driverVars, pureVars>>
        \/ Merge(r) /\ UNCHANGED <<loopVars, driverVars, pureVars>>
        \/ Save(r) /\ UNCHANGED <<loopVars, driverVars, pureVars>>
        \/ Upload(r) /\ UNCHANGED <<loopVars, driverVars, pureVars>>
        \/ Finally(r) /\ UNCHANGED <<loopVars, driverVars, pureVars>>

SpecConc == ConcInit /\ [][ConcNext]_vars

\* ---------------------------------------------------------------------
\* Execution of the app_file module, top to bottom
\* ---------------------------------------------------------------------
MaxKeys == 2

\* The dataset of the run at the bottom of test_s3.
ModuleZip == "LF2023_CBD_240_CONUS"

InputPrefix == "2023/lf/categorical /input/"

\* Object keys under the input prefix: the folder marker (empty basename)
\* and files <base><ext>.
Keys == {[dir |-> InputPrefix, base |-> "", ext |-> ""]}
            \cup [dir : {InputPrefix}, base : Names \cup {ModuleZip}, ext : {".zip", ".csv"}]

basename(key) == [base |-> key.base, ext |-> key.ext]
splitext0(filename) == filename.base
IsEmptyName(filename) == filename.base = "" /\ filename.ext = ""

RECURSIVE NamesOf(_)
NamesOf(contents) ==
    IF contents = <<>> THEN <<>>
    ELSE LET filename == basename(Head(contents))
         IN IF IsEmptyName(filename)
            THEN NamesOf(Tail(contents))
            ELSE <<splitext0(filename)>> \o NamesOf(Tail(contents))

\* list_s3_files_without_extension on a list_objects_v2 response; a
\* response without 'Contents' gives the empty list.
list_s3_files_without_extension(response) ==
    IF response.has_contents THEN NamesOf(response.contents) ELSE <<>>

Responses == {[has_contents |-> FALSE, contents |-> <<>>]}
                \cup {[has_contents |-> TRUE, contents |-> c] :
                        c \in SeqsUpTo(Keys, MaxKeys) \ {<<>>}}

DriverInit ==
    /\ RunLocalsInit
    /\ DiskInit
    /\ lpc = "n/a"
    /\ file_names = <<>>
    /\ idx = 1
    /\ attempted = <<>>
    /\ outcomes = <<>>
    /\ dpc = "import_test_s3"
    /\ listed = <<>>
    /\ PureIdle
    /\ H3Idle

\* from test_s3 import ...: the module body runs, and its last statement
\* calls process_raster_and_csv_from_s3 on ModuleZip.
ImportTestS3 ==
    /\ dpc = "import_test_s3"
    /\ EnterRun(1, ModuleZip)
    /\ attempted' = Append(attempted, ModuleZip)
    /\ dpc' = "module_run"
    /\ UNCHANGED <<lpc, file_names, idx, outcomes, listed>>

\* The try/except around that call logs the outcome either way.
ModuleRunHandle ==
    /\ dpc = "module_run"
    /\ pc[1] = "returned"
    /\ outcomes' = Append(outcomes, result[1])
    /\ pc' = [pc EXCEPT ![1] = "idle"]
    /\ dpc' = "import_get_data"
    /\ UNCHANGED <<temp_dir, zip_name, archive, raster_path, crs, exc, result,
                   trace, reprojected, stats_done, diskVars, lpc, file_names,
                   idx, attempted, listed>>

\* from get_data import file_names_without_extension: the module body
\* calls the listing and binds its result, a list, to that name.
ImportGetData ==
    /\ dpc = "import_get_data"
    /\ \/ dpc' = "import_error" /\ UNCHANGED listed
       \/ \E response \in Responses :
             /\ listed' = list_s3_files_without_extension(response)
             /\ dpc' = "call_listing"
    /\ UNCHANGED <<runVars, diskVars, loopVars>>

\* file_names = file_names_without_extension(bucket_name, prefix,
\* profile_name): the name is bound to a list, calling it raises
\* TypeError, and the module's execution ends before the loop.
CallListing ==
    /\ dpc = "call_listing"
    /\ dpc' = "type_error"
    /\ UNCHANGED <<runVars, diskVars, loopVars, listed>>

DriverNext ==
    \/ ImportTestS3 /\ UNCHANGED pureVars
    \/ ModuleRunHandle /\ UNCHANGED pureVars
    \/ ImportGetData /\ UNCHANGED pureVars
    \/ CallListing /\ UNCHANGED pureVars
    \/ Download(1) /\ UNCHANGED <<loopVars, driverVars, pureVars>>
    \/ Shapefile(1) /\ UNCHANGED <<loopVars, driverVars, pureVars>>
    \/ Tessellate(1) /\ UNCHANGED <<loopVars, driverVars, pureVars>>
    \/ Find(1) /\ UNCHANGED <<loopVars, driverVars, pureVars>>
    \/ Georef(1) /\ UNCHANGED <<loopVars, driverVars, pureVars>>
    \/ Zonal(1) /\ UNCHANGED <<loopVars, driverVars, pureVars>>
    \/ Merge(1) /\ UNCHANGED <<loopVars, driverVars, pureVars>>
    \/ Save(1) /\ UNCHANGED <<loopVars, driverVars, pureVars>>
    \/ Upload(1) /\ UNCHANGED <<loopVars, driverVars, pureVars>>
    \/ Finally(1) /\ UNCHANGED <<loopVars, driverVars, pureVars>>

SpecDriver == DriverInit /\ [][DriverNext]_vars

\* ---------------------------------------------------------------------
\* merge_stats_with_csv
\* ---------------------------------------------------------------------
MaxCells == 1
MaxCount == 2
MaxRows == 2

\* Significant bits of a Python float (IEEE 754 binary64).
MantissaBits == 53

\* Category codes a raster can hold, and first-column values of a lookup
\* table: code 1 can be matched, code 2 never is.
Codes == {1, 2}
LookupCodes == {1, 3}
Labels == {"a", "b"}
NaN == "NaN"
NaNKey == -1

RECURSIVE Pow2(_)
Pow2(n) == IF n = 0 THEN 1 ELSE 2 * Pow2(n - 1)

RECURSIVE Pow2Mod(_, _)
Pow2Mod(k, m) == IF k = 0 THEN 1 % m ELSE (2 * Pow2Mod(k - 1, m)) % m

\* Least j with value * 2^j >= total, for 0 < value.
RECURSIVE Shift(_, _)
Shift(value, total) == IF value >= total THEN 0 ELSE 1 + Shift(2 * value, total)

\* value / total for 0 <= value and 0 < total: the quotient rounded to the
\* nearest float. With k the scaling that puts the quotient's significand
\* in [2^52, 2^53) and r the remainder of value * 2^k by total, the float
\* is (value * 2^k + rho) / (total * 2^k), rho = -r when it rounds down
\* and total - r when it rounds up (a tie needs 2^53 to divide total).
Div(value, total) ==
    IF value = 0 THEN [num |-> 0, den |-> total, k |-> 0, rho |-> 0]
    ELSE LET k == (MantissaBits - 1) + Shift(value, total)
             r == ((value % total) * Pow2Mod(k, total)) % total
         IN [num |-> value, den |-> total, k |-> k,
             rho |-> IF 2 * r > total THEN total - r ELSE 0 - r]

Zero == [num |-> 0, den |-> 1, k |-> 0, rho |-> 0]

\* A mutant of percentage: the share is scaled to a percentage.
percentage_Percent(value, total) ==
    IF total > 0 THEN Div(100 * value, total) ELSE Zero

\* percentage = (value / total) if total > 0 else 0
percentage(value, total) ==
    IF total > 0 THEN Div(value, total) ELSE Zero

RECURSIVE SumOver(_, _)
SumOver(f, S) ==
    IF S = {} THEN 0
    ELSE LET x == CHOOSE y \in S : TRUE IN f[x] + SumOver(f, S \ {x})

Min(S) == CHOOSE x \in S : \A y \in S : x <= y
Max(S) == CHOOSE x \in S : \A y \in S : x >= y

\* The keys of a dict in their iteration order.
RECURSIVE KeysOf(_)
KeysOf(S) == IF S = {} THEN <<>> ELSE <<Min(S)>> \o KeysOf(S \ {Min(S)})

\* The rows one feature contributes: one per category, with its share of
\* the feature's total.
FeatureRows(feature) ==
    LET categories == feature.categories
        total == SumOver(categories, DOMAIN categories)
        keys == KeysOf(DOMAIN categories)
    IN [i \in 1..Len(keys) |->
            [h3_index |-> feature.h3_index, category |-> keys[i],
             value |-> percentage(categories[keys[i]], total)]]

RECURSIVE BuildData(_)
BuildData(features) ==
    IF features = <<>> THEN <<>>
    ELSE FeatureRows(Head(features)) \o BuildData(Tail(features))

\* csv_data.iloc[:, :2]
FirstTwoColumns(table) == [i \in 1..Len(table) |-> <<table[i][1], table[i][2]>>]

RECURSIVE MatchesOf(_, _)
MatchesOf(row, lookup) ==
    IF lookup = <<>> THEN <<>>
    ELSE (IF Head(lookup)[1] = row.category
          THEN <<[h3_index |-> row.h3_index, category |-> row.category,
                  value |-> row.value, key |-> Head(lookup)[1], label |-> Head(lookup)[2]]>>
          ELSE <<>>) \o MatchesOf(row, Tail(lookup))

Unmatched(row) ==
    [h3_index |-> row.h3_index, category |-> row.category, value |-> row.value,
     key |-> NaNKey, label |-> NaN]

\* A mutant of LeftJoin: how='inner', a row without a match is dropped.
RECURSIVE LeftJoin_Inner(_, _)
LeftJoin_Inner(rows, lookup) ==
    IF rows = <<>> THEN <<>>
    ELSE MatchesOf(Head(rows), lookup) \o LeftJoin_Inner(Tail(rows), lookup)

\* df.merge(csv_data, left_on='category', right_on=<first column>,
\* how='left'): every left row once per matching lookup row, and once
\* with missing lookup columns when nothing matches.
RECURSIVE LeftJoin(_, _)
LeftJoin(rows, lookup) ==
    IF rows = <<>> THEN <<>>
    ELSE (IF MatchesOf(Head(rows), lookup) = <<>>
          THEN <<Unmatched(Head(rows))>>
          ELSE MatchesOf(Head(rows), lookup)) \o LeftJoin(Tail(rows), lookup)

CategoryDicts == UNION {[D -> 0..MaxCount] : D \in SUBSET Codes}

StatsInputs ==
    {[i \in 1..Len(ds) |-> [h3_index |-> i, categories |-> ds[i]]] :
        ds \in SeqsUpTo(CategoryDicts, MaxCells)}

CsvInputs == SeqsUpTo(LookupCodes \X Labels \X {"extra"}, MaxRows)

MergeInit ==
    /\ RunLocalsInit
    /\ DiskInit
    /\ lpc = "n/a"
    /\ file_names = <<>>
    /\ idx = 1
    /\ attempted = <<>>
    /\ outcomes = <<>>
    /\ dpc = "n/a"
    /\ listed = <<>>
    /\ stats \in StatsInputs
    /\ csv_data \in CsvInputs
    /\ data = <<>>
    /\ merged_df = <<>>
    /\ mpc = "call"
    /\ H3Idle

\* The whole function. A DataFrame built from no rows has no 'category'
\* column, and the merge raises KeyError.
merge_stats_with_csv ==
    /\ mpc = "call"
    /\ LET rows == BuildData(stats)
       IN /\ data' = rows
          /\ IF rows = <<>>
             THEN merged_df' = <<>> /\ mpc' = "KeyError"
             ELSE /\ merged_df' = LeftJoin(rows, FirstTwoColumns(csv_data))
                  /\ mpc' = "returned"
    /\ UNCHANGED <<stats, csv_data>>

MergeNext == merge_stats_with_csv /\ UNCHANGED <<runVars, diskVars, loopVars, driverVars, h3Vars>>

SpecMerge == MergeInit /\ [][MergeNext]_vars

\* ---------------------------------------------------------------------
\* polygon_to_h3 and polygon_to_h3_single
\* ---------------------------------------------------------------------
MaxParts == 2

\* Vertices are shapely coordinates (x, y) = (longitude, latitude).
Lngs == {-101, -100}
Lats == {40, 41}

\* Cells of the hexagonal grid at the resolution used, named by centre.
Cells == [lat : Lats, lng : Lngs]

\* Exterior rings: closed rectangles with corners on the grid.
Rings ==
    {<<<<x1, y1>>, <<x2, y1>>, <<x2, y2>>, <<x1, y2>>, <<x1, y1>>>> :
        <<x1, x2, y1, y2>> \in {q \in Lngs \X Lngs \X Lats \X Lats : q[1] <= q[2] /\ q[3] <= q[4]}}

Polygons ==
    {[multi |-> FALSE, geoms |-> <<ring>>] : ring \in Rings}
        \cup {[multi |-> TRUE, geoms |-> g] : g \in SeqsUpTo(Rings, MaxParts)}

\* h3.polyfill as called, with geo_json_conformant left at False: every
\* pair is read as (lat, lng), and the cells whose centre lies in the
\* ring are returned.
polyfill(coordinates) ==
    LET lats == {coordinates[i][1] : i \in 1..Len(coordinates)}
        lngs == {coordinates[i][2] : i \in 1..Len(coordinates)}
    IN {c \in Cells : /\ Min(lats) <= c.lat /\ c.lat <= Max(lats)
                      /\ Min(lngs) <= c.lng /\ c.lng <= Max(lngs)}

\* A mutant of GeoJsonCoordinates: the vertices are passed on as they are.
GeoJsonCoordinates_AsIs(exterior_coords) == exterior_coords

\* [[lng, lat] for lat, lng in exterior_coords]: the loop names the x of
\* a vertex lat and its y lng, and emits the pair (y, x).
GeoJsonCoordinates(exterior_coords) ==
    [i \in 1..Len(exterior_coords) |-> <<exterior_coords[i][2], exterior_coords[i][1]>>]

polygon_to_h3_single(ring) == polyfill(GeoJsonCoordinates(ring))

ListsOf(S) == {l \in [1..Cardinality(S) -> S] : {l[i] : i \in 1..Cardinality(S)} = S}

RECURSIVE UpdateAll(_, _)
UpdateAll(all_h3_indices, geoms) ==
    IF geoms = <<>> THEN all_h3_indices
    ELSE UpdateAll(all_h3_indices \cup polygon_to_h3_single(Head(geoms)), Tail(geoms))

\* A mutant of ReturnedLists: the indices are collected in a list that
\* each part extends.
RECURSIVE ReturnedLists_Extend(_)
ReturnedLists_Extend(geoms) ==
    IF geoms = <<>> THEN {<<>>}
    ELSE {a \o b : a \in ListsOf(polygon_to_h3_single(Head(geoms))),
                   b \in ReturnedLists_Extend(Tail(geoms))}

\* list(all_h3_indices): the set filled by the parts in turn, in whatever
\* order the set iterates.
ReturnedLists(geoms) == ListsOf(UpdateAll({}, geoms))

H3Init ==
    /\ RunLocalsInit
    /\ DiskInit
    /\ lpc = "n/a"
    /\ file_names = <<>>
    /\ idx = 1
    /\ attempted = <<>>
    /\ outcomes = <<>>
    /\ dpc = "n/a"
    /\ listed = <<>>
    /\ PureIdle
    /\ polygon \in Polygons
    /\ polyfill_args = <<>>
    /\ part_results = <<>>
    /\ h3_indices = <<>>
    /\ hpc = "call"

\* The whole function; a MultiPolygon is walked part by part, anything
\* else goes to polygon_to_h3_single as it is.
polygon_to_h3 ==
    /\ hpc = "call"
    /\ polyfill_args' = [i \in 1..Len(polygon.geoms) |-> GeoJsonCoordinates(polygon.geoms[i])]
    /\ part_results' = [i \in 1..Len(polygon.geoms) |-> polygon_to_h3_single(polygon.geoms[i])]
    /\ h3_indices' \in ReturnedLists(polygon.geoms)
    /\ hpc' = "returned"
    /\ UNCHANGED polygon

H3Next == polygon_to_h3 /\ UNCHANGED <<runVars, diskVars, loopVars, driverVars, mergeVars>>

SpecH3 == H3Init /\ [][H3Next]_vars

\* ---------------------------------------------------------------------
\* Properties of a run and of the batch loop
\* ---------------------------------------------------------------------

\* C1: when process_raster_and_csv_from_s3 has returned control, normally
\* or with an exception of any stage, the directory it made with mkdtemp
\* no longer exists and no file is left in it.
C1_WorkdirReclaimed ==
    \A r \in Slots :
        pc[r] = "returned" =>
            /\ temp_dir[r] \notin dirs
            /\ \A f \in files : f.dir # temp_dir[r]

C1_Witness ==
    /\ pc[1] = "returned"
    /\ result[1] = "raised"
    /\ exc[1] = "zonal"
    /\ temp_dir[1] \notin dirs

\* C2: an exception of one dataset's run never ends the batch loop, and
\* when the loop is over every name of the list has been attempted, in
\* order.
C2_FailureIsolated ==
    /\ lpc # "crashed"
    /\ IsPrefix(attempted, file_names)
    /\ lpc = "done" => attempted = file_names

C2_Witness ==
    /\ lpc = "done"
    /\ Len(file_names) >= 2
    /\ outcomes[1] = "raised"
    /\ Len(attempted) = Len(file_names)

UploadsBy(d) == Cardinality({i \in 1..Len(uploads) : uploads[i].by = d})

\* C9: the stages of a run are entered in the fixed order; a run uploads
\* at most once, and only after entering every stage with none of them
\* raising; a run in which a stage raised has published nothing and ends
\* by raising to its caller.
C9_StagesInOrder ==
    \A r \in Slots :
        /\ IsPrefix(trace[r], StageOrder)
        /\ UploadsBy(temp_dir[r]) <= 1
        /\ UploadsBy(temp_dir[r]) = 1 => trace[r] = StageOrder /\ exc[r] = "none"
        /\ exc[r] # "none" => UploadsBy(temp_dir[r]) = 0
        /\ (exc[r] # "none" /\ pc[r] = "returned") => result[r] = "raised"
        /\ (exc[r] # "none" /\ pc[r] # "returned" /\ result[r] = "none") => pc[r] = "finally"

C9_Witness ==
    /\ pc[1] = "returned"
    /\ result[1] = "ok"
    /\ trace[1] = StageOrder
    /\ UploadsBy(temp_dir[1]) = 1

Ungeoreferenced(meta) == meta.crs = "None" \/ meta.transform = "identity"

\* C4: a run whose input raster has no CRS or has the identity transform
\* fails in the raster stage: it reprojects nothing and produces no
\* aggregation result.
C4_FailFast ==
    \A r \in Slots :
        (archive[r].raster # NoRaster /\ Ungeoreferenced(archive[r].raster)) =>
            /\ ~reprojected[r]
            /\ ~stats_done[r]
            /\ Len(trace[r]) <= 5
            /\ (Len(trace[r]) = 5 /\ pc[r] # "georef") => exc[r] = "raster"

OwnKinds == {"archive", "extracted", "reprojected", "output"}

\* C3: every archive, extracted file, reprojected raster and output CSV
\* a run writes lies in that run's own working directory, and no run
\* reads a raster that another run wrote.
C3_NoSharedState ==
    /\ \A w \in writes : w.kind \in OwnKinds => w.dir = w.by
    /\ \A x \in reads : x.writer = x.reader

Count(seq, n) == Cardinality({i \in 1..Len(seq) : seq[i] = n})
Range(seq) == {seq[i] : i \in 1..Len(seq)}

\* C10: when the execution of app_file is over, the function has been
\* called exactly once for each name the listing returned and never for
\* any other dataset.
C10_OncePerListedName ==
    dpc = "type_error" =>
        \A n \in Names \cup {ModuleZip} :
            Count(attempted, n) = IF n \in Range(listed) THEN 1 ELSE 0

\* ---------------------------------------------------------------------
\* Properties of merge_stats_with_csv
\* ---------------------------------------------------------------------
RowsOfCell(rows, cell) == {j \in 1..Len(rows) : rows[j].h3_index = cell}
TotalOf(feature) == SumOver(feature.categories, DOMAIN feature.categories)

RECURSIVE SumSet(_, _)
SumSet(F(_), S) ==
    IF S = {} THEN 0
    ELSE LET x == CHOOSE y \in S : TRUE IN F(x) + SumSet(F, S \ {x})

Abs(n) == IF n < 0 THEN 0 - n ELSE n

\* Scaling of a share beyond the 52 bits every nonzero share has.
Excess(v) == IF v.num = 0 THEN 0 ELSE v.k - (MantissaBits - 1)
MaxExcess(J) == IF J = {} THEN 0 ELSE Max({Excess(data[j].value) : j \in J})

\* With every share over the denominator D, the exact sum of the floats is
\* (NumSum * 2^(52+E) + Residue) / (D * 2^(52+E)), E = MaxExcess.
NumSum(J) == LET F(j) == data[j].value.num IN SumSet(F, J)
Residue(J) ==
    LET F(j) == data[j].value.rho * Pow2(MaxExcess(J) - Excess(data[j].value))
    IN SumSet(F, J)

\* 0 <= v <= 1; 2^k is cut at 2^20, which decides the same as long as
\* totals stay below 2^20.
InUnit(v) ==
    LET p == Pow2(IF v.k < 20 THEN v.k ELSE 20)
    IN /\ v.num * p + v.rho >= 0
       /\ v.num <= v.den
       /\ v.rho <= (v.den - v.num) * p

IsZeroShare(v) == v.num = 0 /\ v.rho = 0

\* C5 as stated: the shares of a cell with a nonzero total add up to
\* exactly 1 and lie in [0,1]; the shares of a cell with total zero are
\* all 0.
C5_SharesSumToExactlyOne ==
    mpc # "call" =>
        \A i \in 1..Len(stats) :
            LET J == RowsOfCell(data, i)
                D == TotalOf(stats[i])
            IN IF D > 0
               THEN /\ \A j \in J : data[j].value.den = D /\ InUnit(data[j].value)
                    /\ NumSum(J) = D
                    /\ Residue(J) = 0
               ELSE \A j \in J : IsZeroShare(data[j].value)

\* C5 as amended: the shares of a cell with a nonzero total lie in [0,1]
\* and add up to 1 within floating-point tolerance, the sum of n shares
\* being off by at most n * 2^-53; the shares of a cell with total zero
\* are all 0.
C5_SharesSumToOneWithinTolerance ==
    mpc # "call" =>
        \A i \in 1..Len(stats) :
            LET J == RowsOfCell(data, i)
                D == TotalOf(stats[i])
            IN /\ Cardinality(J) = Cardinality(DOMAIN stats[i].categories)
               /\ IF D > 0
                  THEN /\ \A j \in J : data[j].value.den = D /\ InUnit(data[j].value)
                       /\ NumSum(J) = D
                       /\ 2 * Abs(Residue(J)) <= Cardinality(J) * D * Pow2(MaxExcess(J))
                  ELSE \A j \in J : IsZeroShare(data[j].value)

C5_Witness ==
    /\ mpc = "returned"
    /\ Len(stats) >= 1
    /\ TotalOf(stats[1]) = 3
    /\ Cardinality(DOMAIN stats[1].categories) = 2
    /\ Cardinality(RowsOfCell(data, 1)) = 2
    /\ Residue(RowsOfCell(data, 1)) # 0

PairRows(cell, code) ==
    {j \in 1..Len(merged_df) : merged_df[j].h3_index = cell /\ merged_df[j].category = code}

LookupRows(code) == {n \in 1..Len(csv_data) : csv_data[n][1] = code}

\* C6 as stated: every (cell, code) pair of the input counts is in the
\* output exactly once, with a missing label when the lookup table does
\* not have the code.
C6_PairExactlyOnce ==
    mpc = "returned" =>
        \A i \in 1..Len(stats) : \A code \in DOMAIN stats[i].categories :
            /\ Cardinality(PairRows(i, code)) = 1
            /\ LookupRows(code) = {} => \A j \in PairRows(i, code) : merged_df[j].label = NaN

\* C6 as amended: every (cell, code) pair of the input counts is in the
\* output once per lookup row whose first column is the code, and once,
\* with a missing label, when there is no such row; the output has no
\* row for any other pair.
C6_PairOncePerLookupRow ==
    mpc = "returned" =>
        /\ \A i \in 1..Len(stats) : \A code \in DOMAIN stats[i].categories :
              /\ Cardinality(PairRows(i, code)) =
                    IF LookupRows(code) = {} THEN 1 ELSE Cardinality(LookupRows(code))
              /\ LookupRows(code) = {} => \A j \in PairRows(i, code) : merged_df[j].label = NaN
              /\ LookupRows(code) # {} =>
                    \A j \in PairRows(i, code) :
                        \E n \in LookupRows(code) : merged_df[j].label = csv_data[n][2]
        /\ \A j \in 1..Len(merged_df) :
              /\ merged_df[j].h3_index \in 1..Len(stats)
              /\ merged_df[j].category \in DOMAIN stats[merged_df[j].h3_index].categories

C6_Witness ==
    /\ mpc = "returned"
    /\ Len(stats) >= 1
    /\ DOMAIN stats[1].categories = {1, 2}
    /\ Cardinality(LookupRows(1)) = 2
    /\ Cardinality(PairRows(1, 1)) = 2
    /\ \E j \in PairRows(1, 2) : merged_df[j].label = NaN

\* ---------------------------------------------------------------------
\* Properties of polygon_to_h3
\* ---------------------------------------------------------------------

\* C7 as stated: every pair given to the polyfill primitive is the
\* (x, y) = (longitude, latitude) of the ring vertex it comes from.
C7_LngLatOrder ==
    hpc = "returned" =>
        \A p \in 1..Len(polyfill_args) : \A i \in 1..Len(polyfill_args[p]) :
            /\ polyfill_args[p][i][1] = polygon.geoms[p][i][1]
            /\ polyfill_args[p][i][2] = polygon.geoms[p][i][2]

\* C7 as amended: every pair given to the polyfill primitive is the
\* (y, x) = (latitude, longitude) of the ring vertex it comes from, one
\* pair per vertex and in the ring's order.
C7_LatLngOrder ==
    hpc = "returned" =>
        /\ Len(polyfill_args) = Len(polygon.geoms)
        /\ \A p \in 1..Len(polyfill_args) :
              /\ Len(polyfill_args[p]) = Len(polygon.geoms[p])
              /\ \A i \in 1..Len(polyfill_args[p]) :
                    /\ polyfill_args[p][i][1] = polygon.geoms[p][i][2]
                    /\ polyfill_args[p][i][2] = polygon.geoms[p][i][1]
                    /\ polyfill_args[p][i][1] \in Lats
                    /\ polyfill_args[p][i][2] \in Lngs

C7_Witness ==
    /\ hpc = "returned"
    /\ Len(polyfill_args) = 2
    /\ polyfill_args[1][1] = <<40, -101>>
    /\ h3_indices # <<>>

Reverse(seq) == [i \in 1..Len(seq) |-> seq[Len(seq) + 1 - i]]

\* C8: the list polygon_to_h3 returns has no cell twice, and its cells are
\* the union of what the polyfill returned for the parts, the same union
\* the parts give when visited in the opposite order.
C8_DedupUnion ==
    hpc = "returned" =>
        /\ \A i, j \in 1..Len(h3_indices) : h3_indices[i] = h3_indices[j] => i = j
        /\ Range(h3_indices) = UNION {part_results[p] : p \in 1..Len(part_results)}
        /\ Range(h3_indices) = UpdateAll({}, Reverse(polygon.geoms))

C8_Witness ==
    /\ hpc = "returned"
    /\ polygon.multi
    /\ Len(part_results) = 2
    /\ part_results[1] \cap part_results[2] # {}
    /\ part_results[1] # part_results[2]
    /\ Cardinality(Range(h3_indices)) = Len(h3_indices)

====
